---- MODULE Spec2Model ----
\* Model of swift::FrontendOptions (lib/Frontend/FrontendOptions.cpp): the
\* per-action classification tables and the queries of the options aggregate
\* that are built on them.
\*
\* std::string / StringRef values are sequences of one-character strings, so
\* that empty() and llvm::sys::path::filename are computed, not assumed.
\* A const char * result is a record [null, str].
EXTENDS Integers, Sequences, FiniteSets, TLC

\* ---------------------------------------------------------------------------
\* Bounds
\* ---------------------------------------------------------------------------

\* Longest OutputFilenames list explored.
MaxOutputs == 2

\* ---------------------------------------------------------------------------
\* FrontendOptions::ActionType
\* ---------------------------------------------------------------------------

ActionType ==
  { "NoneAction", "Parse", "Typecheck", "DumpParse", "DumpAST", "EmitSyntax",
    "DumpInterfaceHash", "PrintAST", "DumpScopeMaps",
    "DumpTypeRefinementContexts", "EmitPCH", "EmitSILGen", "EmitSIL",
    "EmitSIBGen", "EmitSIB", "EmitModuleOnly", "MergeModules", "Immediate",
    "REPL", "EmitAssembly", "EmitIR", "EmitBC", "EmitObject",
    "EmitImportedModules" }

\* ---------------------------------------------------------------------------
\* C strings
\* ---------------------------------------------------------------------------

nullptr == [null |-> TRUE, str |-> <<>>]

CStr(s) == [null |-> FALSE, str |-> s]

PCH_EXTENSION == <<"p", "c", "h">>

SIL_EXTENSION == <<"s", "i", "l">>

SIB_EXTENSION == <<"s", "i", "b">>

SERIALIZED_MODULE_EXTENSION ==
  <<"s", "w", "i", "f", "t", "m", "o", "d", "u", "l", "e">>

\* ---------------------------------------------------------------------------
\* Classification tables (static member functions), one CASE arm per group of
\* case labels in the source switch.
\* ---------------------------------------------------------------------------

needsProperModuleName_finalCodegenFalse(action) ==
  CASE action \in { "NoneAction", "Parse", "Typecheck", "DumpParse", "DumpAST",
                    "EmitSyntax", "DumpInterfaceHash", "PrintAST",
                    "DumpScopeMaps", "DumpTypeRefinementContexts" } -> FALSE
    [] action \in { "EmitPCH", "EmitSILGen", "EmitSIL", "EmitSIBGen",
                    "EmitSIB", "EmitModuleOnly", "MergeModules" } -> TRUE
    [] action \in { "Immediate", "REPL" } -> FALSE
    [] action \in { "EmitAssembly", "EmitIR", "EmitBC", "EmitObject",
                    "EmitImportedModules" } -> FALSE

needsProperModuleName(action) ==
  CASE action \in { "NoneAction", "Parse", "Typecheck", "DumpParse", "DumpAST",
                    "EmitSyntax", "DumpInterfaceHash", "PrintAST",
                    "DumpScopeMaps", "DumpTypeRefinementContexts" } -> FALSE
    [] action \in { "EmitPCH", "EmitSILGen", "EmitSIL", "EmitSIBGen",
                    "EmitSIB", "EmitModuleOnly", "MergeModules" } -> TRUE
    [] action \in { "Immediate", "REPL" } -> FALSE
    [] action \in { "EmitAssembly", "EmitIR", "EmitBC", "EmitObject",
                    "EmitImportedModules" } -> TRUE

isActionImmediate(action) ==
  CASE action \in { "NoneAction", "Parse", "Typecheck", "DumpParse", "DumpAST",
                    "EmitSyntax", "DumpInterfaceHash", "PrintAST",
                    "DumpScopeMaps", "DumpTypeRefinementContexts", "EmitPCH",
                    "EmitSILGen", "EmitSIL", "EmitSIBGen", "EmitSIB",
                    "EmitModuleOnly", "MergeModules" } -> FALSE
    [] action \in { "Immediate", "REPL" } -> TRUE
    [] action \in { "EmitAssembly", "EmitIR", "EmitBC", "EmitObject",
                    "EmitImportedModules" } -> FALSE

suffixForPrincipalOutputFileForAction_dumpSuffix(action) ==
  CASE action = "NoneAction" -> nullptr
    [] action \in { "Parse", "Typecheck" } -> nullptr
    [] action \in { "DumpParse", "DumpInterfaceHash", "DumpAST", "EmitSyntax",
                    "PrintAST", "DumpScopeMaps",
                    "DumpTypeRefinementContexts" } -> CStr(<<"t", "x", "t">>)
    [] action = "EmitPCH" -> CStr(PCH_EXTENSION)
    [] action \in { "EmitSILGen", "EmitSIL" } -> CStr(SIL_EXTENSION)
    [] action \in { "EmitSIBGen", "EmitSIB" } -> CStr(SIB_EXTENSION)
    [] action \in { "MergeModules", "EmitModuleOnly" } ->
         CStr(SERIALIZED_MODULE_EXTENSION)
    [] action \in { "Immediate", "REPL" } -> nullptr
    [] action = "EmitAssembly" -> CStr(<<"s">>)
    [] action = "EmitIR" -> CStr(<<"l", "l">>)
    [] action = "EmitBC" -> CStr(<<"b", "c">>)
    [] action = "EmitObject" -> CStr(<<"o">>)
    [] action = "EmitImportedModules" ->
         CStr(<<"i", "m", "p", "o", "r", "t", "e", "d",
                "m", "o", "d", "u", "l", "e", "s">>)

suffixForPrincipalOutputFileForAction(action) ==
  CASE action = "NoneAction" -> nullptr
    [] action \in { "Parse", "Typecheck", "DumpParse", "DumpInterfaceHash",
                    "DumpAST", "EmitSyntax", "PrintAST", "DumpScopeMaps",
                    "DumpTypeRefinementContexts" } -> nullptr
    [] action = "EmitPCH" -> CStr(PCH_EXTENSION)
    [] action \in { "EmitSILGen", "EmitSIL" } -> CStr(SIL_EXTENSION)
    [] action \in { "EmitSIBGen", "EmitSIB" } -> CStr(SIB_EXTENSION)
    [] action \in { "MergeModules", "EmitModuleOnly" } ->
         CStr(SERIALIZED_MODULE_EXTENSION)
    [] action \in { "Immediate", "REPL" } -> nullptr
    [] action = "EmitAssembly" -> CStr(<<"s">>)
    [] action = "EmitIR" -> CStr(<<"l", "l">>)
    [] action = "EmitBC" -> CStr(<<"b", "c">>)
    [] action = "EmitObject" -> CStr(<<"o">>)
    [] action = "EmitImportedModules" ->
         CStr(<<"i", "m", "p", "o", "r", "t", "e", "d",
                "m", "o", "d", "u", "l", "e", "s">>)

canActionEmitDependencies_noParse(action) ==
  CASE action \in { "NoneAction", "DumpParse", "DumpInterfaceHash", "DumpAST",
                    "EmitSyntax", "PrintAST", "DumpScopeMaps",
                    "DumpTypeRefinementContexts", "Immediate", "REPL",
                    "Parse" } -> FALSE
    [] action \in { "Typecheck", "MergeModules", "EmitModuleOnly",
                    "EmitPCH", "EmitSILGen", "EmitSIL", "EmitSIBGen",
                    "EmitSIB", "EmitIR", "EmitBC", "EmitAssembly",
                    "EmitObject", "EmitImportedModules" } -> TRUE

canActionEmitDependencies(action) ==
  CASE action \in { "NoneAction", "DumpParse", "DumpInterfaceHash", "DumpAST",
                    "EmitSyntax", "PrintAST", "DumpScopeMaps",
                    "DumpTypeRefinementContexts", "Immediate", "REPL" } -> FALSE
    [] action \in { "Parse", "Typecheck", "MergeModules", "EmitModuleOnly",
                    "EmitPCH", "EmitSILGen", "EmitSIL", "EmitSIBGen",
                    "EmitSIB", "EmitIR", "EmitBC", "EmitAssembly",
                    "EmitObject", "EmitImportedModules" } -> TRUE

canActionEmitHeader_parseFalse(action) ==
  CASE action \in { "NoneAction", "DumpParse", "DumpInterfaceHash", "DumpAST",
                    "EmitSyntax", "PrintAST", "EmitPCH", "DumpScopeMaps",
                    "DumpTypeRefinementContexts", "Immediate", "REPL",
                    "Parse" } -> FALSE
    [] action \in { "Typecheck", "MergeModules", "EmitModuleOnly",
                    "EmitSILGen", "EmitSIL", "EmitSIBGen", "EmitSIB", "EmitIR",
                    "EmitBC", "EmitAssembly", "EmitObject",
                    "EmitImportedModules" } -> TRUE

canActionEmitHeader(action) ==
  CASE action \in { "NoneAction", "DumpParse", "DumpInterfaceHash", "DumpAST",
                    "EmitSyntax", "PrintAST", "EmitPCH", "DumpScopeMaps",
                    "DumpTypeRefinementContexts", "Immediate", "REPL" } -> FALSE
    [] action \in { "Parse", "Typecheck", "MergeModules", "EmitModuleOnly",
                    "EmitSILGen", "EmitSIL", "EmitSIBGen", "EmitSIB", "EmitIR",
                    "EmitBC", "EmitAssembly", "EmitObject",
                    "EmitImportedModules" } -> TRUE

canActionEmitLoadedModuleTrace_pchFalse(action) ==
  CASE action \in { "NoneAction", "Parse", "DumpParse", "DumpInterfaceHash",
                    "DumpAST", "EmitSyntax", "PrintAST", "DumpScopeMaps",
                    "DumpTypeRefinementContexts", "Immediate", "REPL",
                    "EmitPCH" } -> FALSE
    [] action \in { "Typecheck", "MergeModules", "EmitModuleOnly",
                    "EmitSILGen", "EmitSIL", "EmitSIBGen", "EmitSIB",
                    "EmitIR", "EmitBC", "EmitAssembly", "EmitObject",
                    "EmitImportedModules" } -> TRUE

canActionEmitLoadedModuleTrace(action) ==
  CASE action \in { "NoneAction", "Parse", "DumpParse", "DumpInterfaceHash",
                    "DumpAST", "EmitSyntax", "PrintAST", "DumpScopeMaps",
                    "DumpTypeRefinementContexts", "Immediate", "REPL" } -> FALSE
    [] action \in { "Typecheck", "MergeModules", "EmitModuleOnly", "EmitPCH",
                    "EmitSILGen", "EmitSIL", "EmitSIBGen", "EmitSIB",
                    "EmitIR", "EmitBC", "EmitAssembly", "EmitObject",
                    "EmitImportedModules" } -> TRUE

canActionEmitModule_silGenTrue(action) ==
  CASE action \in { "NoneAction", "Parse", "Typecheck", "DumpParse",
                    "DumpInterfaceHash", "DumpAST", "EmitSyntax", "PrintAST",
                    "EmitPCH", "DumpScopeMaps", "DumpTypeRefinementContexts",
                    "Immediate", "REPL" } -> FALSE
    [] action \in { "MergeModules", "EmitModuleOnly", "EmitSILGen", "EmitSIL",
                    "EmitSIBGen", "EmitSIB", "EmitIR", "EmitBC",
                    "EmitAssembly", "EmitObject",
                    "EmitImportedModules" } -> TRUE

canActionEmitModule(action) ==
  CASE action \in { "NoneAction", "Parse", "Typecheck", "DumpParse",
                    "DumpInterfaceHash", "DumpAST", "EmitSyntax", "PrintAST",
                    "EmitPCH", "DumpScopeMaps", "DumpTypeRefinementContexts",
                    "EmitSILGen", "Immediate", "REPL" } -> FALSE
    [] action \in { "MergeModules", "EmitModuleOnly", "EmitSIL", "EmitSIBGen",
                    "EmitSIB", "EmitIR", "EmitBC", "EmitAssembly",
                    "EmitObject", "EmitImportedModules" } -> TRUE

canActionEmitModuleDoc(action) == canActionEmitModule(action)

doesActionProduceOutput(action) ==
  CASE action \in { "Parse", "Typecheck", "DumpParse", "DumpAST", "EmitSyntax",
                    "DumpInterfaceHash", "PrintAST", "DumpScopeMaps",
                    "DumpTypeRefinementContexts", "EmitPCH", "EmitSILGen",
                    "EmitSIL", "EmitSIBGen", "EmitSIB", "EmitModuleOnly",
                    "EmitAssembly", "EmitIR", "EmitBC", "EmitObject",
                    "EmitImportedModules", "MergeModules" } -> TRUE
    [] action \in { "NoneAction", "Immediate", "REPL" } -> FALSE

doesActionProduceTextualOutput(action) ==
  CASE action \in { "NoneAction", "EmitPCH", "EmitSIBGen", "EmitSIB",
                    "MergeModules", "EmitModuleOnly", "EmitBC", "EmitObject",
                    "Immediate", "REPL" } -> FALSE
    [] action \in { "Parse", "Typecheck", "DumpParse", "DumpInterfaceHash",
                    "DumpAST", "EmitSyntax", "PrintAST", "DumpScopeMaps",
                    "DumpTypeRefinementContexts", "EmitImportedModules",
                    "EmitSILGen", "EmitSIL", "EmitAssembly",
                    "EmitIR" } -> TRUE

\* ---------------------------------------------------------------------------
\* The options aggregate (fields of FrontendOptions) and the observation of
\* the last call made on it.
\* ---------------------------------------------------------------------------

VARIABLES
  RequestedAction,        \* ActionType
  OutputFilenames,        \* std::vector<std::string>
  ModuleOutputPath,       \* std::string
  ModuleDocOutputPath,    \* std::string
  ObjCHeaderOutputPath,   \* std::string
  DependenciesFilePath,   \* std::string
  LoadedModuleTracePath,  \* std::string
  ModuleName,             \* std::string
  PrimaryInputs,          \* the primary inputs held by Inputs (at most one)
  call,                   \* name of the last function called, "none" at first
  arg,                    \* its ActionType argument ("none" for a member query)
  ret,                    \* its return value
  visited                 \* the strings fn was invoked on, in call order

options ==
  << RequestedAction, OutputFilenames, ModuleOutputPath, ModuleDocOutputPath,
     ObjCHeaderOutputPath, DependenciesFilePath, LoadedModuleTracePath,
     ModuleName, PrimaryInputs >>

vars == << options, call, arg, ret, visited >>

\* ----- input alphabets -----------------------------------------------------

empty == <<>>

OutO == <<"o", "u", "t", ".", "o">>

Stdout == <<"-">>

MainSwift == <<"m", "a", "i", "n", ".", "s", "w", "i", "f", "t">>

SrcMainSwift == <<"s", "r", "c", "/">> \o MainSwift

OutputNames == { OutO, Stdout }

ModulePaths == { empty, <<"M", ".", "s", "w", "i", "f", "t", "m", "o", "d", "u", "l", "e">> }

ModuleDocPaths == { empty, <<"M", ".", "s", "w", "i", "f", "t", "d", "o", "c">> }

HeaderPaths == { empty, <<"M", ".", "h">> }

DependenciesPaths == { empty, <<"M", ".", "d">> }

TracePaths == { empty, <<"M", ".", "t", "r", "a", "c", "e">> }

ModuleNames == { <<"M">> }

InputPaths == { MainSwift, SrcMainSwift }

SeqsUpTo(S, n) == UNION { [1..k -> S] : k \in 0..n }

\* ----- helpers declared outside this file ------------------------------------

\* getSingleOutputFilename(): the last declared output filename, or "".
getSingleOutputFilename ==
  IF Len(OutputFilenames) >= 1 THEN OutputFilenames[Len(OutputFilenames)]
  ELSE empty

\* hasNamedOutputFile(): an output filename is declared and it is not stdout.
hasNamedOutputFile ==
  OutputFilenames # <<>> /\ getSingleOutputFilename # Stdout

\* Inputs.getUniquePrimaryInput(): the primary input, or null (<<>>).
getUniquePrimaryInput == PrimaryInputs

\* Index of the last '/' of path, 0 when there is none.
RECURSIVE LastSeparator(_, _)
LastSeparator(path, i) ==
  IF i = 0 THEN 0
  ELSE IF path[i] = "/" THEN i
  ELSE LastSeparator(path, i - 1)

\* llvm::sys::path::filename on a path that does not end in a separator.
filename(path) ==
  SubSeq(path, LastSeparator(path, Len(path)) + 1, Len(path))

\* ----- member queries --------------------------------------------------------

RECURSIVE forEachOutputFilename(_, _)
forEachOutputFilename(i, log) ==
  IF i > Len(OutputFilenames) THEN log
  ELSE forEachOutputFilename(i + 1, Append(log, OutputFilenames[i]))

RECURSIVE forEachOutput(_, _, _)
forEachOutput(outputs, i, log) ==
  IF i > Len(outputs) THEN log
  ELSE forEachOutput(outputs, i + 1,
                     IF outputs[i] # empty THEN Append(log, outputs[i])
                     ELSE log)

forAllOutputPaths_alwaysPrincipal ==
  forEachOutput(<< ModuleOutputPath, ModuleDocOutputPath,
                   ObjCHeaderOutputPath >>, 1,
                forEachOutputFilename(1, <<>>))

forAllOutputPaths ==
  LET principal ==
        IF RequestedAction # "EmitModuleOnly"
           /\ RequestedAction # "MergeModules"
        THEN forEachOutputFilename(1, <<>>)
        ELSE <<>>
      outputs == << ModuleOutputPath, ModuleDocOutputPath,
                    ObjCHeaderOutputPath >>
  IN  forEachOutput(outputs, 1, principal)

originalPath_inputFirst ==
  LET input == getUniquePrimaryInput
  IN  IF input # <<>> THEN filename(input[1])
      ELSE IF hasNamedOutputFile THEN getSingleOutputFilename
      ELSE ModuleName

originalPath ==
  IF hasNamedOutputFile THEN getSingleOutputFilename
  ELSE LET input == getUniquePrimaryInput
       IN  IF input # <<>> THEN filename(input[1]) ELSE ModuleName

isOutputFileDirectory(is_directory) ==
  hasNamedOutputFile /\ is_directory

hasUnusedDependenciesFilePath ==
  DependenciesFilePath # empty /\ ~canActionEmitDependencies(RequestedAction)

hasUnusedObjCHeaderOutputPath ==
  ObjCHeaderOutputPath # empty /\ ~canActionEmitHeader(RequestedAction)

hasUnusedLoadedModuleTracePath ==
  LoadedModuleTracePath # empty
  /\ ~canActionEmitLoadedModuleTrace(RequestedAction)

hasUnusedModuleOutputPath ==
  ModuleOutputPath # empty /\ ~canActionEmitModule(RequestedAction)

hasUnusedModuleDocOutputPath_usesModulePath ==
  ModuleOutputPath # empty /\ ~canActionEmitModule(RequestedAction)

hasUnusedModuleDocOutputPath ==
  ModuleDocOutputPath # empty /\ ~canActionEmitModule(RequestedAction)

\* ---------------------------------------------------------------------------
\* Initial states
\* ---------------------------------------------------------------------------

NoCall ==
  /\ call = "none"
  /\ arg = "none"
  /\ ret = FALSE
  /\ visited = <<>>

\* Any options aggregate the argument parser can have filled in.
Init ==
  /\ RequestedAction \in ActionType
  /\ OutputFilenames \in SeqsUpTo(OutputNames, MaxOutputs)
  /\ ModuleOutputPath \in ModulePaths
  /\ ModuleDocOutputPath \in ModuleDocPaths
  /\ ObjCHeaderOutputPath \in HeaderPaths
  /\ DependenciesFilePath \in DependenciesPaths
  /\ LoadedModuleTracePath \in TracePaths
  /\ ModuleName \in ModuleNames
  /\ PrimaryInputs \in SeqsUpTo(InputPaths, 1)
  /\ NoCall

\* A default-constructed aggregate: the static classifiers read none of it.
InitClassify ==
  /\ RequestedAction = "NoneAction"
  /\ OutputFilenames = <<>>
  /\ ModuleOutputPath = empty
  /\ ModuleDocOutputPath = empty
  /\ ObjCHeaderOutputPath = empty
  /\ DependenciesFilePath = empty
  /\ LoadedModuleTracePath = empty
  /\ ModuleName = empty
  /\ PrimaryInputs = <<>>
  /\ NoCall

\* ---------------------------------------------------------------------------
\* Calls
\* ---------------------------------------------------------------------------

Returns(name, action, value) ==
  /\ call' = name
  /\ arg' = action
  /\ ret' = value
  /\ visited' = <<>>
  /\ UNCHANGED options

Call_needsProperModuleName ==
  \E action \in ActionType :
    Returns("needsProperModuleName", action, needsProperModuleName(action))

Call_isActionImmediate ==
  \E action \in ActionType :
    Returns("isActionImmediate", action, isActionImmediate(action))

Call_suffixForPrincipalOutputFileForAction ==
  \E action \in ActionType :
    Returns("suffixForPrincipalOutputFileForAction", action,
            suffixForPrincipalOutputFileForAction(action))

Call_canActionEmitDependencies ==
  \E action \in ActionType :
    Returns("canActionEmitDependencies", action,
            canActionEmitDependencies(action))

Call_canActionEmitHeader ==
  \E action \in ActionType :
    Returns("canActionEmitHeader", action, canActionEmitHeader(action))

Call_canActionEmitLoadedModuleTrace ==
  \E action \in ActionType :
    Returns("canActionEmitLoadedModuleTrace", action,
            canActionEmitLoadedModuleTrace(action))

Call_canActionEmitModule ==
  \E action \in ActionType :
    Returns("canActionEmitModule", action, canActionEmitModule(action))

Call_canActionEmitModuleDoc ==
  \E action \in ActionType :
    Returns("canActionEmitModuleDoc", action, canActionEmitModuleDoc(action))

Call_doesActionProduceOutput ==
  \E action \in ActionType :
    Returns("doesActionProduceOutput", action, doesActionProduceOutput(action))

Call_doesActionProduceTextualOutput ==
  \E action \in ActionType :
    Returns("doesActionProduceTextualOutput", action,
            doesActionProduceTextualOutput(action))

Call_forAllOutputPaths ==
  /\ call' = "forAllOutputPaths"
  /\ arg' = "none"
  /\ ret' = FALSE
  /\ visited' = forAllOutputPaths
  /\ UNCHANGED options

Call_originalPath == Returns("originalPath", "none", originalPath)

Call_isOutputFileDirectory ==
  \E is_directory \in BOOLEAN :
    Returns("isOutputFileDirectory", "none",
            isOutputFileDirectory(is_directory))

Call_hasUnusedDependenciesFilePath ==
  Returns("hasUnusedDependenciesFilePath", "none",
          hasUnusedDependenciesFilePath)

Call_hasUnusedObjCHeaderOutputPath ==
  Returns("hasUnusedObjCHeaderOutputPath", "none",
          hasUnusedObjCHeaderOutputPath)

Call_hasUnusedLoadedModuleTracePath ==
  Returns("hasUnusedLoadedModuleTracePath", "none",
          hasUnusedLoadedModuleTracePath)

Call_hasUnusedModuleOutputPath ==
  Returns("hasUnusedModuleOutputPath", "none", hasUnusedModuleOutputPath)

Call_hasUnusedModuleDocOutputPath ==
  Returns("hasUnusedModuleDocOutputPath", "none",
          hasUnusedModuleDocOutputPath)

\* The queries of a filled-in options aggregate.
Next ==
  \/ Call_forAllOutputPaths
  \/ Call_originalPath
  \/ Call_isOutputFileDirectory
  \/ Call_hasUnusedDependenciesFilePath
  \/ Call_hasUnusedObjCHeaderOutputPath
  \/ Call_hasUnusedLoadedModuleTracePath
  \/ Call_hasUnusedModuleOutputPath
  \/ Call_hasUnusedModuleDocOutputPath

Spec == Init /\ [][Next]_vars

\* The static classifiers, applied to every ActionType.
NextClassify ==
  \/ Call_needsProperModuleName
  \/ Call_isActionImmediate
  \/ Call_suffixForPrincipalOutputFileForAction
  \/ Call_canActionEmitDependencies
  \/ Call_canActionEmitHeader
  \/ Call_canActionEmitLoadedModuleTrace
  \/ Call_canActionEmitModule
  \/ Call_canActionEmitModuleDoc
  \/ Call_doesActionProduceOutput
  \/ Call_doesActionProduceTextualOutput

ClassifySpec == InitClassify /\ [][NextClassify]_vars

\* ---------------------------------------------------------------------------
\* Properties
\* ---------------------------------------------------------------------------

FinalCodegen ==
  { "EmitAssembly", "EmitIR", "EmitBC", "EmitObject", "EmitImportedModules" }

ModuleKeyed ==
  { "EmitPCH", "EmitSILGen", "EmitSIL", "EmitSIBGen", "EmitSIB",
    "EmitModuleOnly", "MergeModules" }

Inert ==
  { "NoneAction", "DumpParse", "DumpAST", "EmitSyntax", "DumpInterfaceHash",
    "PrintAST", "DumpScopeMaps", "DumpTypeRefinementContexts", "Immediate",
    "REPL" }

NoFileSuffix ==
  { "Parse", "Typecheck", "DumpParse", "DumpAST", "EmitSyntax",
    "DumpInterfaceHash", "PrintAST", "DumpScopeMaps",
    "DumpTypeRefinementContexts" }

CanEmitModule ==
  { "EmitSIL", "EmitSIBGen", "EmitSIB", "EmitIR", "EmitBC", "EmitAssembly",
    "EmitObject", "EmitImportedModules", "MergeModules", "EmitModuleOnly" }

\* C1 (as stated): needsProperModuleName returns true exactly for EmitPCH,
\* EmitSILGen, EmitSIL, EmitSIBGen, EmitSIB, EmitModuleOnly and MergeModules,
\* and false for every other action, the final-codegen actions included.
C1_Original ==
  call = "needsProperModuleName" => ret = (arg \in ModuleKeyed)

\* C1 (amended): needsProperModuleName returns true exactly for EmitPCH,
\* EmitSILGen, EmitSIL, EmitSIBGen, EmitSIB, EmitModuleOnly, MergeModules and
\* the final-codegen actions EmitAssembly, EmitIR, EmitBC, EmitObject and
\* EmitImportedModules; it returns false for every other action.
C1_Amended ==
  call = "needsProperModuleName" =>
    ret = (arg \in ModuleKeyed \cup FinalCodegen)

C1_Witness ==
  call = "needsProperModuleName" /\ arg = "EmitObject" /\ ret = TRUE

\* C2 (as stated): canActionEmitHeader(EmitPCH) is false and
\* canActionEmitLoadedModuleTrace(EmitPCH) is false.
C2_Original ==
  /\ (call = "canActionEmitHeader" /\ arg = "EmitPCH") => ret = FALSE
  /\ (call = "canActionEmitLoadedModuleTrace" /\ arg = "EmitPCH") =>
       ret = FALSE

\* C2 (amended): canActionEmitHeader(EmitPCH) is false, while
\* canActionEmitLoadedModuleTrace(EmitPCH) is true.
C2_Amended ==
  /\ (call = "canActionEmitHeader" /\ arg = "EmitPCH") => ret = FALSE
  /\ (call = "canActionEmitLoadedModuleTrace" /\ arg = "EmitPCH") =>
       ret = TRUE

C2_Witness ==
  call = "canActionEmitLoadedModuleTrace" /\ arg = "EmitPCH" /\ ret = TRUE

\* C3 (as stated): with a non-empty ObjCHeaderOutputPath,
\* hasUnusedObjCHeaderOutputPath returns true when RequestedAction is Parse and
\* false when it is MergeModules.
C3_Original ==
  (call = "hasUnusedObjCHeaderOutputPath" /\ ObjCHeaderOutputPath # empty) =>
    /\ RequestedAction = "Parse" => ret = TRUE
    /\ RequestedAction = "MergeModules" => ret = FALSE

\* C3 (amended): with a non-empty ObjCHeaderOutputPath,
\* hasUnusedObjCHeaderOutputPath returns false when RequestedAction is Parse
\* and false when it is MergeModules; it returns true when RequestedAction is
\* DumpParse.
C3_Amended ==
  (call = "hasUnusedObjCHeaderOutputPath" /\ ObjCHeaderOutputPath # empty) =>
    /\ RequestedAction = "Parse" => ret = FALSE
    /\ RequestedAction = "MergeModules" => ret = FALSE
    /\ RequestedAction = "DumpParse" => ret = TRUE

C3_Witness ==
  /\ call = "hasUnusedObjCHeaderOutputPath"
  /\ ObjCHeaderOutputPath # empty
  /\ RequestedAction = "Parse"
  /\ ret = FALSE

\* C4: canActionEmitModule returns true exactly for EmitSIL, EmitSIBGen,
\* EmitSIB, EmitIR, EmitBC, EmitAssembly, EmitObject, EmitImportedModules,
\* MergeModules and EmitModuleOnly (so not for EmitSILGen or EmitPCH), and
\* canActionEmitModuleDoc gives the same answer for every action.
C4_ModuleEmission ==
  /\ call = "canActionEmitModule" => ret = (arg \in CanEmitModule)
  /\ call = "canActionEmitModuleDoc" => ret = (arg \in CanEmitModule)
  /\ (call \in { "canActionEmitModule", "canActionEmitModuleDoc" }
      /\ arg \in { "EmitSILGen", "EmitPCH" }) => ret = FALSE

C4_Witness ==
  call = "canActionEmitModule" /\ arg = "EmitSILGen" /\ ret = FALSE

\* C5: originalPath returns the single output filename when a named output
\* file exists, whatever the primary input and module name are; otherwise the
\* filename component of the unique primary input when there is one; otherwise
\* the module name.
C5_FallbackPriority ==
  call = "originalPath" =>
    /\ hasNamedOutputFile => ret = getSingleOutputFilename
    /\ (~hasNamedOutputFile /\ PrimaryInputs # <<>>) =>
         ret = filename(PrimaryInputs[1]) /\ ret = MainSwift
    /\ (~hasNamedOutputFile /\ PrimaryInputs = <<>>) => ret = ModuleName
    /\ (OutputFilenames = << OutO >>) => ret = OutO

C5_Witness ==
  /\ call = "originalPath"
  /\ OutputFilenames = << OutO >>
  /\ PrimaryInputs = << SrcMainSwift >>
  /\ ModuleName = <<"M">>
  /\ ret = OutO

\* C6: suffixForPrincipalOutputFileForAction returns a non-null suffix if and
\* only if doesActionProduceOutput is true and the action is not one of Parse,
\* Typecheck, DumpParse, DumpAST, EmitSyntax, DumpInterfaceHash, PrintAST,
\* DumpScopeMaps, DumpTypeRefinementContexts; NoneAction, Immediate and REPL
\* have no suffix and produce no output.
C6_SuffixCoherence ==
  /\ call = "suffixForPrincipalOutputFileForAction" =>
       /\ (~ret.null) <=>
            (doesActionProduceOutput(arg) /\ arg \notin NoFileSuffix)
       /\ arg \in { "NoneAction", "Immediate", "REPL" } => ret = nullptr
  /\ call = "doesActionProduceOutput" =>
       /\ ret = (suffixForPrincipalOutputFileForAction(arg) # nullptr
                 \/ arg \in NoFileSuffix)
       /\ arg \in { "NoneAction", "Immediate", "REPL" } => ret = FALSE

C6_Witness ==
  /\ call = "suffixForPrincipalOutputFileForAction"
  /\ arg = "DumpAST"
  /\ ret = nullptr
  /\ doesActionProduceOutput(arg)

\* C7: canActionEmitDependencies, canActionEmitHeader,
\* canActionEmitLoadedModuleTrace and canActionEmitModule are all false for
\* every action of the inert subset, while canActionEmitDependencies is true
\* for Parse and for Typecheck.
C7_InertSubset ==
  /\ (call \in { "canActionEmitDependencies", "canActionEmitHeader",
                 "canActionEmitLoadedModuleTrace", "canActionEmitModule" }
      /\ arg \in Inert) => ret = FALSE
  /\ (call = "canActionEmitDependencies"
      /\ arg \in { "Parse", "Typecheck" }) => ret = TRUE

C7_Witness ==
  call = "canActionEmitDependencies" /\ arg = "Parse" /\ ret = TRUE

\* C8: each unused-path query is true if and only if its own path is non-empty
\* and the matching capability predicate is false for the requested action;
\* an empty path is never reported unused and no query reads another path.
C8_UnusedPaths ==
  /\ call = "hasUnusedDependenciesFilePath" =>
       ret = (DependenciesFilePath # empty
              /\ ~canActionEmitDependencies(RequestedAction))
  /\ call = "hasUnusedObjCHeaderOutputPath" =>
       ret = (ObjCHeaderOutputPath # empty
              /\ ~canActionEmitHeader(RequestedAction))
  /\ call = "hasUnusedLoadedModuleTracePath" =>
       ret = (LoadedModuleTracePath # empty
              /\ ~canActionEmitLoadedModuleTrace(RequestedAction))
  /\ call = "hasUnusedModuleOutputPath" =>
       ret = (ModuleOutputPath # empty
              /\ ~canActionEmitModule(RequestedAction))
  /\ call = "hasUnusedModuleDocOutputPath" =>
       ret = (ModuleDocOutputPath # empty
              /\ ~canActionEmitModule(RequestedAction))

C8_Witness ==
  /\ call = "hasUnusedModuleDocOutputPath"
  /\ RequestedAction = "Typecheck"
  /\ ModuleDocOutputPath = empty
  /\ ModuleOutputPath # empty
  /\ ret = FALSE

\* C9: forAllOutputPaths calls fn on every entry of OutputFilenames in list
\* order, unless RequestedAction is EmitModuleOnly or MergeModules (then on no
\* principal output), and then on ModuleOutputPath, ModuleDocOutputPath and
\* ObjCHeaderOutputPath in that order, each only if non-empty; it never visits
\* DependenciesFilePath or LoadedModuleTracePath, and visits the sidecar paths
\* whether or not the requested action can emit them.
C9_VisitOrder ==
  call = "forAllOutputPaths" =>
    /\ visited =
         (IF RequestedAction \in { "EmitModuleOnly", "MergeModules" }
          THEN <<>> ELSE OutputFilenames)
         \o SelectSeq(<< ModuleOutputPath, ModuleDocOutputPath,
                         ObjCHeaderOutputPath >>, LAMBDA path : path # empty)
    /\ \A i \in DOMAIN visited :
         /\ visited[i] # empty
            => visited[i] \notin { DependenciesFilePath, LoadedModuleTracePath }
         /\ i > Len(visited) - 3 \/ visited[i] \in OutputNames

C9_Witness ==
  /\ call = "forAllOutputPaths"
  /\ RequestedAction = "DumpParse"
  /\ OutputFilenames = << Stdout, OutO >>
  /\ DependenciesFilePath # empty
  /\ LoadedModuleTracePath # empty
  /\ Len(visited) = 5
  /\ visited[5] = ObjCHeaderOutputPath

\* C10: for every action canActionEmitModule implies canActionEmitHeader and
\* canActionEmitLoadedModuleTrace, and each of those two implies
\* canActionEmitDependencies; so an action that cannot emit a dependencies
\* file can emit none of header, loaded-module trace, module or module doc.
C10_Nested ==
  /\ (call = "canActionEmitModule" /\ ret = TRUE) =>
       canActionEmitHeader(arg) /\ canActionEmitLoadedModuleTrace(arg)
  /\ (call \in { "canActionEmitHeader", "canActionEmitLoadedModuleTrace" }
      /\ ret = TRUE) => canActionEmitDependencies(arg)
  /\ (call = "canActionEmitDependencies" /\ ret = FALSE) =>
       /\ ~canActionEmitHeader(arg)
       /\ ~canActionEmitLoadedModuleTrace(arg)
       /\ ~canActionEmitModule(arg)
       /\ ~canActionEmitModuleDoc(arg)

C10_Witness ==
  /\ call = "canActionEmitModule"
  /\ arg = "EmitModuleOnly"
  /\ ret = TRUE
  /\ canActionEmitDependencies(arg)

====
